---- MODULE Spec2Model ----
(***************************************************************************)
(* Model of ddtrace/tracer/handler.go: the two traceWriter                 *)
(* implementations, agentTraceWriter (asynchronous delivery to the agent   *)
(* under a connection limit) and lambdaTraceWriter (JSON payloads written  *)
(* to stdout under a size limit).                                          *)
(***************************************************************************)
EXTENDS Integers, Sequences, FiniteSets, TLC

\* ------------------------------------------------------------------------
\* Bounds of the model
\* ------------------------------------------------------------------------

\* largest capacity of the climit channel the writer is constructed with
MaxConnLimit == 2

\* number of add() calls made on the agentTraceWriter
MaxAdds == 2

\* the traceWriter implementation the tracer was configured with
VARIABLE writer

\* total number of spans passed to add() of the lambdaTraceWriter
MaxSpansTotal == 4

\* ------------------------------------------------------------------------
\* lambdaTraceWriter: state
\* ------------------------------------------------------------------------

VARIABLES
    lpayload,     \* h.payload: the bytes buffered, as a sequence of tokens
    hasTraces,    \* h.hasTraces
    stdout,       \* the payloads written to os.Stdout, in order
    lstats,       \* statsd traces_dropped: reason -> total
    lpc,          \* position of the caller's thread in the lambdaTraceWriter
    trace,        \* add: the slice of spans still to be written
    accepted,     \* the traces passed to add: [spans, drops, done]
    lpre          \* buffer, flag and stdout length when the last add began

lambdaVars == <<lpayload, hasTraces, stdout, lstats, lpc, trace, accepted, lpre>>

\* ------------------------------------------------------------------------
\* agentTraceWriter: state
\* ------------------------------------------------------------------------

VARIABLES
    payload,      \* h.payload: pointer to the payload under construction
    bufs,         \* the payload objects alive: identity -> [size, count]
    climit,       \* number of elements held in the channel h.climit
    climitCap,    \* cap(h.climit)
    wg,           \* counter of h.wg
    tasks,        \* the delivery goroutines: payload id -> [pc, size, count, err]
    stats,        \* h.config.statsd: metric name -> total
    sent,         \* payload id -> number of transport.send calls made with it
    nextId,       \* identity given to the next newPayload()
    pc,           \* position of the caller's thread in the agentTraceWriter
    caller,       \* the exported method the caller's thread is in
    nAdds,        \* number of add() calls made so far
    addHist,      \* the add() call in progress: buffer and counter before push
    stopSnap      \* the goroutines not yet back from send when stop() was called

agentVars == <<payload, bufs, climit, climitCap, wg, tasks, stats, sent, nextId,
               pc, caller, nAdds, addHist, stopSnap>>

\* threshold of add(); declared beside concurrentConnectionLimit
payloadSizeLimit == 1

MetricNames == {"traces_dropped.encoding_error", "flush_triggered.size",
                "traces_dropped.send_failed", "flush_bytes", "flush_traces",
                "decode_error", "flush_duration"}

\* newPayload(): an empty buffer
newPayload == [size |-> 0, count |-> 0]

\* payload.push(trace): on success size and count grow by the trace, on an
\* encoding error the buffer keeps its contents and the error is returned
payload_push(p, sz, ok) ==
    IF ok THEN [p |-> [p EXCEPT !.size = @ + sz, !.count = @ + 1], err |-> FALSE]
          ELSE [p |-> p, err |-> TRUE]

\* encoded sizes of the traces given to add: one that alone stays within
\* payloadSizeLimit and one that alone exceeds it
TraceSizes == {payloadSizeLimit, payloadSizeLimit + 1}

payload_size(p) == p.size

payload_itemCount(p) == p.count

\* statsd.Incr / statsd.Count
Incr(s, name, n) == [s EXCEPT ![name] = @ + n]

With(f, k, v) == [i \in DOMAIN f \cup {k} |-> IF i = k THEN v ELSE f[i]]

Without(f, k) == [i \in DOMAIN f \ {k} |-> f[i]]

NoHist == [pre |-> newPayload, err |-> FALSE, sz |-> 0, dropPre |-> 0]

\* newAgentTraceWriter
agent_Init ==
    /\ payload = 1
    /\ bufs = With(<< >>, 1, newPayload)
    /\ nextId = 2
    /\ climit = 0
    /\ climitCap \in 1..MaxConnLimit
    /\ wg = 0
    /\ tasks = << >>
    /\ stats = [m \in MetricNames |-> 0]
    /\ sent = << >>
    /\ pc = "idle"
    /\ caller = "none"
    /\ nAdds = 0
    /\ addHist = NoHist
    /\ stopSnap = {}

\* ------------------------------------------------------------------------
\* agentTraceWriter: the caller's thread
\* ------------------------------------------------------------------------


\* add that forgets to count the trace it could not encode
agent_add_uncounted(sz, ok) ==
    /\ writer = "agent"
    /\ pc = "idle"
    /\ nAdds < MaxAdds
    /\ LET r == payload_push(bufs[payload], sz, ok) IN
        /\ bufs' = [bufs EXCEPT ![payload] = r.p]
        /\ addHist' = [pre |-> bufs[payload], err |-> r.err, sz |-> sz,
                       dropPre |-> stats["traces_dropped.encoding_error"]]
    /\ nAdds' = nAdds + 1
    /\ pc' = "add_check"
    /\ caller' = "add"
    /\ UNCHANGED <<writer, lambdaVars>>
    /\ UNCHANGED <<payload, climit, climitCap, wg, tasks, stats, sent, nextId,
                   stopSnap>>

\* add, line 59-62: push the trace, count it as dropped if push fails
agent_add(sz, ok) ==
    /\ writer = "agent"
    /\ pc = "idle"
    /\ nAdds < MaxAdds
    /\ LET r == payload_push(bufs[payload], sz, ok) IN
        /\ bufs' = [bufs EXCEPT ![payload] = r.p]
        /\ stats' = IF r.err THEN Incr(stats, "traces_dropped.encoding_error", 1)
                             ELSE stats
        /\ addHist' = [pre |-> bufs[payload], err |-> r.err, sz |-> sz,
                       dropPre |-> stats["traces_dropped.encoding_error"]]
    /\ nAdds' = nAdds + 1
    /\ pc' = "add_check"
    /\ caller' = "add"
    /\ UNCHANGED <<writer, lambdaVars>>
    /\ UNCHANGED <<payload, climit, climitCap, wg, tasks, sent, nextId, stopSnap>>

\* add without the threshold flush
agent_add_check_noflush ==
    /\ writer = "agent"
    /\ pc = "add_check"
    /\ pc' = "idle"
    /\ caller' = "none"
    /\ addHist' = NoHist
    /\ UNCHANGED <<writer, lambdaVars>>
    /\ UNCHANGED <<payload, bufs, climit, climitCap, wg, tasks, stats, sent,
                   nextId, nAdds, stopSnap>>

\* add, line 63-66: flush when the payload passed the size threshold
agent_add_check ==
    /\ writer = "agent"
    /\ pc = "add_check"
    /\ IF payload_size(bufs[payload]) > payloadSizeLimit
         THEN /\ stats' = Incr(stats, "flush_triggered.size", 1)
              /\ pc' = "flush_entry"
              /\ UNCHANGED caller
         ELSE /\ pc' = "idle"
              /\ caller' = "none"
              /\ UNCHANGED stats
    /\ addHist' = NoHist
    /\ UNCHANGED <<writer, lambdaVars>>
    /\ UNCHANGED <<payload, bufs, climit, climitCap, wg, tasks, sent, nextId,
                   nAdds, stopSnap>>

\* a call of flush() by the owner of the writer
agent_flush ==
    /\ writer = "agent"
    /\ pc = "idle"
    /\ pc' = "flush_entry"
    /\ caller' = "flush"
    /\ UNCHANGED <<writer, lambdaVars>>
    /\ UNCHANGED <<payload, bufs, climit, climitCap, wg, tasks, stats, sent,
                   nextId, nAdds, addHist, stopSnap>>

\* flush, line 75-78: return on an empty payload, else h.wg.Add(1)
agent_flush_check ==
    /\ writer = "agent"
    /\ pc = "flush_entry"
    /\ IF payload_itemCount(bufs[payload]) = 0
         THEN /\ pc' = "idle"
              /\ caller' = "none"
              /\ UNCHANGED wg
         ELSE /\ wg' = wg + 1
              /\ pc' = "flush_acquire"
              /\ UNCHANGED caller
    /\ UNCHANGED <<writer, lambdaVars>>
    /\ UNCHANGED <<payload, bufs, climit, climitCap, tasks, stats, sent, nextId,
                   nAdds, addHist, stopSnap>>


\* flush that starts the goroutine without waiting for room in h.climit
agent_flush_acquire_nowait ==
    /\ writer = "agent"
    /\ pc = "flush_acquire"
    /\ climit' = climit + 1
    /\ pc' = "flush_go"
    /\ UNCHANGED <<writer, lambdaVars>>
    /\ UNCHANGED <<payload, bufs, climitCap, wg, tasks, stats, sent, nextId,
                   caller, nAdds, addHist, stopSnap>>

\* flush, line 79: h.climit <- struct{}{} blocks while the channel is full
agent_flush_acquire ==
    /\ writer = "agent"
    /\ pc = "flush_acquire"
    /\ climit < climitCap
    /\ climit' = climit + 1
    /\ pc' = "flush_go"
    /\ UNCHANGED <<writer, lambdaVars>>
    /\ UNCHANGED <<payload, bufs, climitCap, wg, tasks, stats, sent, nextId,
                   caller, nAdds, addHist, stopSnap>>

\* flush, line 80 and 99: go func(p *payload){...}(h.payload)
agent_flush_go ==
    /\ writer = "agent"
    /\ pc = "flush_go"
    /\ tasks' = With(tasks, payload, [pc |-> "start", size |-> 0, count |-> 0, err |-> FALSE])
    /\ pc' = "flush_swap"
    /\ UNCHANGED <<writer, lambdaVars>>
    /\ UNCHANGED <<payload, bufs, climit, climitCap, wg, stats, sent, nextId,
                   caller, nAdds, addHist, stopSnap>>


\* flush that returns without replacing h.payload
agent_flush_noswap ==
    /\ writer = "agent"
    /\ pc = "flush_swap"
    /\ pc' = "idle"
    /\ caller' = "none"
    /\ UNCHANGED <<writer, lambdaVars>>
    /\ UNCHANGED <<payload, bufs, nextId, climit, climitCap, wg, tasks, stats,
                   sent, nAdds, addHist, stopSnap>>

\* flush, line 100: h.payload = newPayload(), then flush (and add) return
agent_flush_swap ==
    /\ writer = "agent"
    /\ pc = "flush_swap"
    /\ payload' = nextId
    /\ bufs' = With(bufs, nextId, newPayload)
    /\ nextId' = nextId + 1
    /\ pc' = "idle"
    /\ caller' = "none"
    /\ UNCHANGED <<writer, lambdaVars>>
    /\ UNCHANGED <<climit, climitCap, wg, tasks, stats, sent, nAdds, addHist,
                   stopSnap>>

\* the goroutines started that have not yet returned from transport.send
InSend == {t \in DOMAIN tasks : tasks[t].pc \in {"start", "sending"}}

\* a call of stop(): h.wg.Wait() begins
agent_stop ==
    /\ writer = "agent"
    /\ pc = "idle"
    /\ pc' = "stop_wait"
    /\ caller' = "stop"
    /\ stopSnap' = InSend
    /\ UNCHANGED <<writer, lambdaVars>>
    /\ UNCHANGED <<payload, bufs, climit, climitCap, wg, tasks, stats, sent,
                   nextId, nAdds, addHist>>


\* stop that returns without waiting for h.wg
agent_stop_nowait ==
    /\ writer = "agent"
    /\ pc = "stop_wait"
    /\ pc' = "stopped"
    /\ UNCHANGED <<writer, lambdaVars>>
    /\ UNCHANGED <<payload, bufs, climit, climitCap, wg, tasks, stats, sent,
                   nextId, caller, nAdds, addHist, stopSnap>>

\* stop, line 70: h.wg.Wait() returns when the counter is zero
agent_stop_return ==
    /\ writer = "agent"
    /\ pc = "stop_wait"
    /\ wg = 0
    /\ pc' = "stopped"
    /\ UNCHANGED <<writer, lambdaVars>>
    /\ UNCHANGED <<payload, bufs, climit, climitCap, wg, tasks, stats, sent,
                   nextId, caller, nAdds, addHist, stopSnap>>

\* ------------------------------------------------------------------------
\* agentTraceWriter: the delivery goroutine of payload t
\* ------------------------------------------------------------------------

\* line 86-88: read size and count of p, call h.config.transport.send(p)
task_send(t) ==
    /\ writer = "agent"
    /\ t \in DOMAIN tasks
    /\ tasks[t].pc = "start"
    /\ tasks' = [tasks EXCEPT ![t] = [pc |-> "sending",
                                      size |-> payload_size(bufs[t]),
                                      count |-> payload_itemCount(bufs[t]),
                                      err |-> FALSE]]
    /\ sent' = With(sent, t, IF t \in DOMAIN sent THEN sent[t] + 1 ELSE 1)
    /\ UNCHANGED <<writer, lambdaVars>>
    /\ UNCHANGED <<payload, bufs, climit, climitCap, wg, stats, nextId, pc,
                   caller, nAdds, addHist, stopSnap>>

\* a delivery that counts the batch as dropped when only the rates of the
\* response could not be decoded
task_send_return_dropOnDecode(t, err, decodeErr) ==
    /\ writer = "agent"
    /\ t \in DOMAIN tasks
    /\ tasks[t].pc = "sending"
    /\ stats' =
         IF err \/ decodeErr
           THEN Incr(stats, "traces_dropped.send_failed", tasks[t].count)
           ELSE Incr(Incr(stats, "flush_bytes", tasks[t].size),
                     "flush_traces", tasks[t].count)
    /\ tasks' = [tasks EXCEPT ![t].pc = "sent", ![t].err = err]
    /\ UNCHANGED <<writer, lambdaVars>>
    /\ UNCHANGED <<payload, bufs, climit, climitCap, wg, sent, nextId, pc,
                   caller, nAdds, addHist, stopSnap>>

\* a delivery that counts one dropped trace for a failed batch (Incr for
\* Count)
task_send_return_incr(t, err, decodeErr) ==
    /\ writer = "agent"
    /\ t \in DOMAIN tasks
    /\ tasks[t].pc = "sending"
    /\ stats' =
         IF err
           THEN Incr(stats, "traces_dropped.send_failed", 1)
           ELSE LET s1 == Incr(stats, "flush_bytes", tasks[t].size)
                    s2 == Incr(s1, "flush_traces", tasks[t].count)
                IN  IF decodeErr THEN Incr(s2, "decode_error", 1) ELSE s2
    /\ tasks' = [tasks EXCEPT ![t].pc = "sent", ![t].err = err]
    /\ UNCHANGED <<writer, lambdaVars>>
    /\ UNCHANGED <<payload, bufs, climit, climitCap, wg, sent, nextId, pc,
                   caller, nAdds, addHist, stopSnap>>

\* line 88-98: send returns; the outcome of the batch is counted
task_send_return(t, err, decodeErr) ==
    /\ writer = "agent"
    /\ t \in DOMAIN tasks
    /\ tasks[t].pc = "sending"
    /\ stats' =
         IF err
           THEN Incr(stats, "traces_dropped.send_failed", tasks[t].count)
           ELSE LET s1 == Incr(stats, "flush_bytes", tasks[t].size)
                    s2 == Incr(s1, "flush_traces", tasks[t].count)
                IN  IF decodeErr THEN Incr(s2, "decode_error", 1) ELSE s2
    /\ tasks' = [tasks EXCEPT ![t].pc = "sent", ![t].err = err]
    /\ UNCHANGED <<writer, lambdaVars>>
    /\ UNCHANGED <<payload, bufs, climit, climitCap, wg, sent, nextId, pc,
                   caller, nAdds, addHist, stopSnap>>


\* a goroutine that exits without receiving from h.climit
task_release_leak(t) ==
    /\ writer = "agent"
    /\ t \in DOMAIN tasks
    /\ tasks[t].pc = "sent"
    /\ tasks' = [tasks EXCEPT ![t].pc = "released"]
    /\ UNCHANGED <<writer, lambdaVars>>
    /\ UNCHANGED <<payload, bufs, climit, climitCap, wg, stats, sent, nextId,
                   pc, caller, nAdds, addHist, stopSnap>>

\* deferred, line 82: <-h.climit
task_release(t) ==
    /\ writer = "agent"
    /\ t \in DOMAIN tasks
    /\ tasks[t].pc = "sent"
    /\ climit > 0
    /\ climit' = climit - 1
    /\ tasks' = [tasks EXCEPT ![t].pc = "released"]
    /\ UNCHANGED <<writer, lambdaVars>>
    /\ UNCHANGED <<payload, bufs, climitCap, wg, stats, sent, nextId, pc,
                   caller, nAdds, addHist, stopSnap>>

\* deferred, line 83: h.wg.Done()
task_done(t) ==
    /\ writer = "agent"
    /\ t \in DOMAIN tasks
    /\ tasks[t].pc = "released"
    /\ wg' = wg - 1
    /\ tasks' = [tasks EXCEPT ![t].pc = "done"]
    /\ UNCHANGED <<writer, lambdaVars>>
    /\ UNCHANGED <<payload, bufs, climit, climitCap, stats, sent, nextId, pc,
                   caller, nAdds, addHist, stopSnap>>

\* deferred, line 84: statsd.Timing(flush_duration); the goroutine exits and
\* its payload is garbage
task_timing(t) ==
    /\ writer = "agent"
    /\ t \in DOMAIN tasks
    /\ tasks[t].pc = "done"
    /\ stats' = Incr(stats, "flush_duration", 1)
    /\ tasks' = Without(tasks, t)
    /\ bufs' = IF t = payload THEN bufs ELSE Without(bufs, t)
    /\ UNCHANGED <<writer, lambdaVars>>
    /\ UNCHANGED <<payload, climit, climitCap, wg, sent, nextId, pc, caller,
                   nAdds, addHist, stopSnap>>

AgentNext ==
    \/ \E sz \in TraceSizes, ok \in BOOLEAN : agent_add(sz, ok)
    \/ agent_add_check
    \/ agent_flush
    \/ agent_flush_check
    \/ agent_flush_acquire
    \/ agent_flush_go
    \/ agent_flush_swap
    \/ agent_stop
    \/ agent_stop_return
    \/ \E t \in DOMAIN tasks : task_send(t)
    \/ \E t \in DOMAIN tasks, err \in BOOLEAN, decodeErr \in BOOLEAN :
            task_send_return(t, err, decodeErr)
    \/ \E t \in DOMAIN tasks : task_release(t)
    \/ \E t \in DOMAIN tasks : task_done(t)
    \/ \E t \in DOMAIN tasks : task_timing(t)


\* ------------------------------------------------------------------------
\* lambdaTraceWriter
\* ------------------------------------------------------------------------

payloadLimit == 262144

\* a run of bytes of the buffer: a literal, or the JSON of span ix of trace tr
Lit(k, n) == [k |-> k, n |-> n, tr |-> 0, ix |-> 0]

OpenObj == Lit("{\"traces\": [", 12)

OpenFirst == Lit("[", 1)

OpenNext == Lit(", [", 3)

Comma == Lit(",", 1)

CloseArr == Lit("]", 1)

CloseObj == Lit("]}", 2)

SpanTok(s) == [k |-> "span", n |-> s.sz, tr |-> s.tr, ix |-> s.ix]

\* encoded sizes of the spans given to add: a small span, the largest span
\* that passes the check of line 194 in an empty payload, and the next size
SpanSizes == {150, payloadLimit - 15, payloadLimit - 14}

\* a span: its encoded size, and whether json Encode accepts it
SpanChoices == {[sz |-> s, ok |-> TRUE] : s \in SpanSizes}
                   \cup {[sz |-> 0, ok |-> FALSE]}

TracesUpTo(n) == UNION {[1..k -> SpanChoices] : k \in 0..n}

RECURSIVE BufLen(_)
\* h.payload.Len()
BufLen(buf) == IF buf = << >> THEN 0 ELSE buf[1].n + BufLen(Tail(buf))

RECURSIVE Truncate(_, _)
\* h.payload.Truncate(n): keep the first n bytes
Truncate(buf, n) ==
    IF buf = << >> \/ buf[1].n > n THEN << >>
    ELSE <<buf[1]>> \o Truncate(Tail(buf), n - buf[1].n)

\* resetPayload
resetPayload == [buf |-> <<OpenObj>>, has |-> FALSE]

\* addSpan: the span's JSON without the newline is appended, or an error
addSpan(buf, s) ==
    IF s.ok THEN [buf |-> Append(buf, SpanTok(s)), err |-> FALSE]
            ELSE [buf |-> buf, err |-> TRUE]


RECURSIVE addTraceLoop_keepOpen(_, _, _, _, _, _)
\* the loop of addTrace rolling a too large first span back to the span
\* boundary instead of to the start of the trace
addTraceLoop_keepOpen(buf, has, tr, i, startLen, written) ==
    IF i > Len(tr) THEN [buf |-> buf, written |-> written, err |-> "none"]
    ELSE LET l  == BufLen(buf)
             b1 == IF i # 1 THEN Append(buf, Comma) ELSE buf
             r  == addSpan(b1, tr[i])
         IN  IF r.err
               THEN [buf |-> Truncate(r.buf, startLen), written |-> 0,
                     err |-> "encoding_failed"]
             ELSE IF BufLen(r.buf) > payloadLimit - 2
               THEN IF i = 1 /\ ~has
                      THEN [buf |-> Truncate(r.buf, l), written |-> 0,
                            err |-> "trace_too_large"]
                      ELSE [buf |-> Truncate(r.buf, l), written |-> written,
                            err |-> "none"]
             ELSE addTraceLoop_keepOpen(r.buf, has, tr, i + 1, startLen, written + 1)

RECURSIVE addTraceLoop_noTooLarge(_, _, _, _, _, _)
\* the loop of addTrace without the drop of a first span that is too large
\* for an empty payload
addTraceLoop_noTooLarge(buf, has, tr, i, startLen, written) ==
    IF i > Len(tr) THEN [buf |-> buf, written |-> written, err |-> "none"]
    ELSE LET l  == BufLen(buf)
             b1 == IF i # 1 THEN Append(buf, Comma) ELSE buf
             r  == addSpan(b1, tr[i])
         IN  IF r.err
               THEN [buf |-> Truncate(r.buf, startLen), written |-> 0,
                     err |-> "encoding_failed"]
             ELSE IF BufLen(r.buf) > payloadLimit - 2
               THEN [buf |-> Truncate(r.buf, l), written |-> written,
                     err |-> "none"]
             ELSE addTraceLoop_noTooLarge(r.buf, has, tr, i + 1, startLen,
                                          written + 1)

RECURSIVE addTraceLoop(_, _, _, _, _, _)
\* addTrace, line 184-204: the loop over the spans, from span i on
addTraceLoop(buf, has, tr, i, startLen, written) ==
    IF i > Len(tr) THEN [buf |-> buf, written |-> written, err |-> "none"]
    ELSE LET l  == BufLen(buf)
             b1 == IF i # 1 THEN Append(buf, Comma) ELSE buf
             r  == addSpan(b1, tr[i])
         IN  IF r.err
               THEN [buf |-> Truncate(r.buf, startLen), written |-> 0,
                     err |-> "encoding_failed"]
             ELSE IF BufLen(r.buf) > payloadLimit - 2
               THEN IF i = 1 /\ ~has
                      THEN [buf |-> Truncate(r.buf, startLen), written |-> 0,
                            err |-> "trace_too_large"]
                      ELSE [buf |-> Truncate(r.buf, l), written |-> written,
                            err |-> "none"]
             ELSE addTraceLoop(r.buf, has, tr, i + 1, startLen, written + 1)

\* addTrace counting the span it rolled back as written
addTrace_offByOne(buf, has, tr) ==
    LET startLen == BufLen(buf)
        b0 == Append(buf, IF ~has THEN OpenFirst ELSE OpenNext)
        r  == addTraceLoop(b0, has, tr, 1, startLen, 0)
    IN  IF r.err # "none"
          THEN [buf |-> r.buf, has |-> has, written |-> 0, err |-> r.err]
          ELSE [buf |-> Append(r.buf, CloseArr), has |-> TRUE,
                written |-> IF r.written < Len(tr) THEN r.written + 1
                                                   ELSE r.written,
                err |-> "none"]

\* addTrace
addTrace(buf, has, tr) ==
    LET startLen == BufLen(buf)
        b0 == Append(buf, IF ~has THEN OpenFirst ELSE OpenNext)
        r  == addTraceLoop(b0, has, tr, 1, startLen, 0)
    IN  IF r.err # "none"
          THEN [buf |-> r.buf, has |-> has, written |-> 0, err |-> r.err]
          ELSE [buf |-> Append(r.buf, CloseArr), has |-> TRUE,
                written |-> r.written, err |-> "none"]

\* flush without the test of h.hasTraces
flush_always(buf, has) ==
    [buf |-> resetPayload.buf, has |-> resetPayload.has,
     out |-> <<Append(buf, CloseObj)>>]

\* flush: [buf, has, out], out the payload written to stdout, if any
flush(buf, has) ==
    IF ~has THEN [buf |-> buf, has |-> has, out |-> << >>]
    ELSE [buf |-> resetPayload.buf, has |-> resetPayload.has,
          out |-> <<Append(buf, CloseObj)>>]

SpansUsed ==
    LET RECURSIVE Sum(_)
        Sum(k) == IF k = 0 THEN 0 ELSE Len(accepted[k].spans) + Sum(k - 1)
    IN  Sum(Len(accepted))

NoPre == [buf |-> << >>, has |-> FALSE, out |-> 0, drops |-> << >>, on |-> FALSE]

\* newLambdaTraceWriter
lambda_Init ==
    /\ lpayload = resetPayload.buf
    /\ hasTraces = resetPayload.has
    /\ stdout = << >>
    /\ lstats = [r \in {"encoding_failed", "trace_too_large"} |-> 0]
    /\ lpc = "idle"
    /\ trace = << >>
    /\ accepted = << >>
    /\ lpre = NoPre

\* a call of add(tr); the loop of line 211 is not entered by an empty trace
lambda_add(tr) ==
    /\ writer = "lambda"
    /\ lpc = "idle"
    /\ Len(tr) > 0
    /\ LET no == Len(accepted) + 1
           sp == [i \in 1..Len(tr) |->
                    [sz |-> tr[i].sz, ok |-> tr[i].ok, tr |-> no, ix |-> i]]
       IN  /\ trace' = sp
           /\ accepted' = Append(accepted, [spans |-> sp, drops |-> 0,
                                            done |-> FALSE])
    /\ lpre' = [buf |-> lpayload, has |-> hasTraces, out |-> Len(stdout),
                drops |-> lstats, on |-> TRUE]
    /\ lpc' = "add"
    /\ UNCHANGED <<lpayload, hasTraces, stdout, lstats>>
    /\ UNCHANGED <<writer, agentVars>>

\* add, line 212-221: one round of the loop
lambda_add_round ==
    /\ writer = "lambda"
    /\ lpc = "add"
    /\ LET r  == addTrace(lpayload, hasTraces, trace)
           no == Len(accepted)
       IN  IF r.err # "none"
             THEN /\ lstats' = [lstats EXCEPT ![r.err] = @ + 1]
                  /\ accepted' = [accepted EXCEPT ![no].drops = @ + 1,
                                                  ![no].done = TRUE]
                  /\ lpayload' = r.buf
                  /\ hasTraces' = r.has
                  /\ trace' = << >>
                  /\ lpc' = "idle"
                  /\ UNCHANGED stdout
             ELSE LET rest == SubSeq(trace, r.written + 1, Len(trace))
                      f    == flush(r.buf, r.has)
                  IN  IF Len(rest) > 0
                        THEN /\ lpayload' = f.buf
                             /\ hasTraces' = f.has
                             /\ stdout' = stdout \o f.out
                             /\ trace' = rest
                             /\ UNCHANGED <<lpc, accepted, lstats>>
                        ELSE /\ lpayload' = r.buf
                             /\ hasTraces' = r.has
                             /\ trace' = rest
                             /\ accepted' = [accepted EXCEPT ![no].done = TRUE]
                             /\ lpc' = "idle"
                             /\ UNCHANGED <<stdout, lstats>>
    /\ UNCHANGED lpre
    /\ UNCHANGED <<writer, agentVars>>

\* a call of flush() by the owner of the writer
lambda_flush ==
    /\ writer = "lambda"
    /\ lpc = "idle"
    /\ lpc' = "flush"
    /\ lpre' = NoPre
    /\ UNCHANGED <<lpayload, hasTraces, stdout, lstats, trace, accepted>>
    /\ UNCHANGED <<writer, agentVars>>

\* flush, line 229-234
lambda_flush_body ==
    /\ writer = "lambda"
    /\ lpc = "flush"
    /\ LET f == flush(lpayload, hasTraces)
       IN  /\ lpayload' = f.buf
           /\ hasTraces' = f.has
           /\ stdout' = stdout \o f.out
    /\ lpc' = "idle"
    /\ UNCHANGED <<lstats, trace, accepted, lpre>>
    /\ UNCHANGED <<writer, agentVars>>

\* stop, line 225
lambda_stop ==
    /\ writer = "lambda"
    /\ lpc = "idle"
    /\ UNCHANGED lambdaVars
    /\ UNCHANGED <<writer, agentVars>>

\* the traces the caller may pass to add next
NextTraces ==
    IF writer = "lambda" /\ lpc = "idle"
      THEN TracesUpTo(MaxSpansTotal - SpansUsed)
      ELSE {}

LambdaNext ==
    \/ \E tr \in NextTraces : lambda_add(tr)
    \/ lambda_add_round
    \/ lambda_flush
    \/ lambda_flush_body
    \/ lambda_stop

\* ------------------------------------------------------------------------
\* Specifications
\* ------------------------------------------------------------------------

vars == <<writer, agentVars, lambdaVars>>

\* either implementation of the traceWriter interface may be the one in use
Init == writer \in {"agent", "lambda"} /\ agent_Init /\ lambda_Init

AgentInit == writer = "agent" /\ agent_Init /\ lambda_Init

LambdaInit == writer = "lambda" /\ agent_Init /\ lambda_Init

Next == AgentNext \/ LambdaNext

\* a traceWriter of either kind
Spec == Init /\ [][Next]_vars

\* the agentTraceWriter under any scheduling of caller and goroutines
AgentSpec == AgentInit /\ [][AgentNext]_vars

\* the lambdaTraceWriter under any sequence of calls
LambdaSpec == LambdaInit /\ [][LambdaNext]_vars

\* the steps of the caller's thread inside a call
CallerStep ==
    \/ agent_add_check
    \/ agent_flush_check
    \/ agent_flush_acquire
    \/ agent_flush_go
    \/ agent_flush_swap
    \/ agent_stop_return

\* the steps of the delivery goroutine of payload t
TaskStep(t) ==
    \/ task_send(t)
    \/ \E err \in BOOLEAN, decodeErr \in BOOLEAN : task_send_return(t, err, decodeErr)
    \/ task_release(t)
    \/ task_done(t)
    \/ task_timing(t)

\* a step of the caller's thread inside a call or of a delivery goroutine
Progress == CallerStep \/ \E t \in DOMAIN tasks : TaskStep(t)

\* the agentTraceWriter when the scheduler keeps running some runnable
\* goroutine and every transport send returns
AgentFairSpec == AgentInit /\ [][AgentNext]_vars /\ WF_vars(Progress)

\* ------------------------------------------------------------------------
\* Properties of the agentTraceWriter
\* ------------------------------------------------------------------------

\* C1: the number of delivery goroutines that have started and have not yet
\* completed their transport send never exceeds the capacity of climit; with
\* a capacity of 1 a second delivery does not start before the first is over.
C1_ConcurrencyLimit == Cardinality(InSend) <= climitCap

\* C1 witness: with a limit of 1, the second size-triggered flush waits for
\* its slot while the delivery of the first is still in send.
C1_Witness ==
    /\ climitCap = 1
    /\ stats["flush_triggered.size"] = 2
    /\ pc = "flush_acquire"
    /\ \E t \in DOMAIN tasks : tasks[t].pc = "sending"

\* C2: when stop() has returned, every delivery goroutine that was started
\* before stop() was called (those already past send then stay so) has
\* returned from send and counted its outcome.
C2_StopDrains ==
    pc = "stopped" =>
        \A t \in stopSnap :
            t \in DOMAIN tasks => tasks[t].pc \in {"sent", "released", "done"}

\* C2 witness: stop() has returned after being called while two deliveries
\* had not yet returned from send.
C2_Witness ==
    /\ pc = "stopped"
    /\ Cardinality(stopSnap) = 2

\* C5: after the push of add() and before the threshold check, either the
\* push succeeded, the payload grew by exactly this trace and nothing was
\* counted as dropped, or it failed, the payload is as it was before and
\* traces_dropped (encoding_error) grew by exactly one.
C5_AppendOrDrop ==
    pc = "add_check" =>
        LET p == bufs[payload]
            d == stats["traces_dropped.encoding_error"]
        IN  IF addHist.err
              THEN p = addHist.pre /\ d = addHist.dropPre + 1
              ELSE /\ p.count = addHist.pre.count + 1
                   /\ p.size = addHist.pre.size + addHist.sz
                   /\ d = addHist.dropPre

\* C5 witness: a trace is appended by the add() that follows an add() whose
\* trace was dropped.
C5_Witness ==
    /\ pc = "add_check"
    /\ ~addHist.err
    /\ stats["traces_dropped.encoding_error"] = 1

\* C9 as stated: the payload of a started delivery goroutine is never the
\* writer's current payload.
C9_SwapBeforeHandOff == \A t \in DOMAIN tasks : t # payload

\* C9 amended: flush starts the goroutine on the old payload first (line 80
\* and 99) and replaces h.payload after that (line 100); outside that window
\* no goroutine holds the current payload, and flush returns with a new,
\* empty payload that no goroutine holds.
C9_HandOffThenSwap ==
    [][ /\ (pc = "flush_go" /\ pc' # pc) =>
               (pc' = "flush_swap" /\ payload' = payload /\ payload \in DOMAIN tasks')
        /\ (pc = "flush_swap" /\ pc' # pc) =>
               /\ pc' = "idle"
               /\ payload' \notin DOMAIN bufs
               /\ bufs'[payload'] = newPayload
        /\ pc' # "flush_swap" => \A t \in DOMAIN tasks' : t # payload'
      ]_vars

\* C9 witness: the goroutine is inside transport.send with a payload that is
\* still h.payload.
C9_Witness ==
    /\ pc = "flush_swap"
    /\ payload \in DOMAIN tasks
    /\ tasks[payload].pc = "sending"

\* C10 as stated: add() is never in a state it can only leave once a
\* transport send has returned.
C10_AddNeverWaitsForSend ==
    ~(caller = "add" /\ pc = "flush_acquire" /\ Cardinality(InSend) = climitCap)

\* the goroutines that hold an element of h.climit
SlotHolders == {t \in DOMAIN tasks : tasks[t].pc \in {"start", "sending", "sent"}}

\* C10 amended: add() waits nowhere but in the channel send of the flush it
\* triggered, and there only while every slot of climit is held by a delivery
\* goroutine that has not finished; it goes on as soon as one of them has
\* returned from send and received from climit.
C10_AddWaitsOnlyForSlot ==
    caller = "add" =>
        \/ ENABLED CallerStep
        \/ /\ pc = "flush_acquire"
           /\ climit = climitCap
           /\ Cardinality(SlotHolders) = climitCap

\* C10 witness: add() is inside the flush it triggered and waits for a slot
\* of climit while every delivery holding one is inside transport.send.
C10_Witness ==
    /\ caller = "add"
    /\ pc = "flush_acquire"
    /\ climit = climitCap
    /\ \A t \in DOMAIN tasks : tasks[t].pc = "sending"

\* ------------------------------------------------------------------------
\* Properties of the lambdaTraceWriter
\* ------------------------------------------------------------------------

RECURSIVE Flatten(_)
Flatten(ps) == IF ps = << >> THEN << >> ELSE ps[1] \o Flatten(Tail(ps))

\* the spans of trace k found in the payloads written and in the buffer, in
\* the order they were written
Emitted(k) ==
    LET IsOfK(tok) == tok.k = "span" /\ tok.tr = k
    IN  SelectSeq(Flatten(stdout) \o lpayload, IsOfK)

\* the payloads (the buffer being the last) that hold a span of trace k
Holders(k) ==
    LET all == Append(stdout, lpayload)
    IN  {i \in 1..Len(all) :
            \E j \in 1..Len(all[i]) : all[i][j].k = "span" /\ all[i][j].tr = k}

\* C3: no payload written to stdout is longer than payloadLimit bytes.
C3_PayloadWithinLimit ==
    \A i \in 1..Len(stdout) : BufLen(stdout[i]) <= payloadLimit

\* C4: for every trace add() has returned from, either nothing was counted
\* as dropped and all its spans are in the output, or one drop was counted
\* and none of its spans is in the buffer or in a written payload.
C4_AllOrNothing ==
    \A k \in 1..Len(accepted) :
        accepted[k].done =>
            \/ /\ accepted[k].drops = 0
               /\ Len(Emitted(k)) = Len(accepted[k].spans)
            \/ /\ accepted[k].drops = 1
               /\ Emitted(k) = << >>

\* C7: the spans of a trace that was not dropped, read from the trace arrays
\* in the order written, are the spans of the trace, each once, unchanged and
\* in their order, also when add() split the trace across flushes.
C7_SplitPreservesSpans ==
    \A k \in 1..Len(accepted) :
        (accepted[k].done /\ accepted[k].drops = 0) =>
            Emitted(k) = [i \in 1..Len(accepted[k].spans) |->
                             SpanTok(accepted[k].spans[i])]

\* C7 witness: a trace that was not dropped has its spans in two payloads.
C7_Witness ==
    \E k \in 1..Len(accepted) :
        /\ accepted[k].done
        /\ accepted[k].drops = 0
        /\ Cardinality(Holders(k)) >= 2

\* a span that json encodes and that line 194 rejects in an empty payload
TooLargeAlone(s) ==
    s.ok /\ BufLen(resetPayload.buf) + OpenFirst.n + s.sz > payloadLimit - 2

\* C8: add() of a trace whose first span does not fit in an empty payload,
\* called with no trace in the batch, counts one trace_too_large drop, writes
\* nothing to stdout and leaves buffer and hasTraces as they were.
C8_TooLargeLeavesBuffer ==
    (lpc = "idle" /\ lpre.on /\ ~lpre.has
                  /\ TooLargeAlone(accepted[Len(accepted)].spans[1])) =>
        /\ accepted[Len(accepted)].drops = 1
        /\ lstats["trace_too_large"] = lpre.drops["trace_too_large"] + 1
        /\ lstats["encoding_failed"] = lpre.drops["encoding_failed"]
        /\ Len(stdout) = lpre.out
        /\ lpayload = lpre.buf
        /\ hasTraces = lpre.has

\* C8 witness: add() has returned from such a trace, which had more spans
\* behind the first one.
C8_Witness ==
    /\ lpc = "idle"
    /\ lpre.on
    /\ ~lpre.has
    /\ TooLargeAlone(accepted[Len(accepted)].spans[1])
    /\ Len(accepted[Len(accepted)].spans) > 1

\* ------------------------------------------------------------------------
\* Properties of both writers
\* ------------------------------------------------------------------------

\* C6: flush() with nothing buffered returns at once and changes nothing: no
\* goroutine, no slot of climit, no send, no write to stdout, no metric, and
\* the buffer and the rest of the writer stay as they are.
C6_EmptyFlushNoop ==
    [][ /\ (pc = "flush_entry" /\ payload_itemCount(bufs[payload]) = 0
                               /\ pc' # pc) =>
               /\ pc' = "idle"
               /\ UNCHANGED <<payload, bufs, climit, wg, tasks, stats, sent, nextId>>
        /\ (lpc = "flush" /\ ~hasTraces /\ lpc' # lpc) =>
               /\ lpc' = "idle"
               /\ UNCHANGED <<lpayload, hasTraces, stdout, lstats>>
      ]_vars

\* C6 witness: flush() is called on the agentTraceWriter again after a flush
\* that handed a payload to send, and finds the new payload empty.
C6_Witness ==
    /\ pc = "flush_entry"
    /\ caller = "flush"
    /\ payload_itemCount(bufs[payload]) = 0
    /\ DOMAIN sent # {}

\* the same case on the lambdaTraceWriter: flush() after a flush that wrote
C6_WitnessLambda ==
    /\ lpc = "flush"
    /\ ~hasTraces
    /\ stdout # << >>

\* ------------------------------------------------------------------------
\* Further properties of the agentTraceWriter
\* ------------------------------------------------------------------------

\* the deliveries that leave transport.send in this step
Returning == {t \in DOMAIN tasks : /\ tasks[t].pc = "sending"
                                   /\ t \in DOMAIN tasks'
                                   /\ tasks'[t].pc = "sent"}

Delta(name) == stats'[name] - stats[name]

\* C13: a delivery counts exactly one outcome for its batch, when its send
\* returns: either flush_bytes and flush_traces grow by size and count of the
\* batch and no drop is counted (decode_error may grow by one), or
\* traces_dropped (send_failed) grows by the count of the batch and nothing
\* else; no other step touches these counters and no batch is sent twice.
C13_OneOutcome ==
    [][ /\ \A t \in Returning :
              IF ~tasks'[t].err
                THEN /\ Delta("flush_bytes") = payload_size(bufs[t])
                     /\ Delta("flush_traces") = payload_itemCount(bufs[t])
                     /\ Delta("traces_dropped.send_failed") = 0
                     /\ Delta("decode_error") \in {0, 1}
                ELSE /\ Delta("traces_dropped.send_failed") = payload_itemCount(bufs[t])
                     /\ Delta("flush_bytes") = 0
                     /\ Delta("flush_traces") = 0
                     /\ Delta("decode_error") = 0
        /\ Returning = {} =>
              /\ Delta("flush_bytes") = 0
              /\ Delta("flush_traces") = 0
              /\ Delta("traces_dropped.send_failed") = 0
              /\ Delta("decode_error") = 0
        /\ \A t \in DOMAIN sent' : sent'[t] = 1
      ]_vars

\* C13 witness: one batch was lost to a failed send and the send of another
\* has succeeded with a response whose rates could not be decoded.
C13_Witness ==
    /\ stats["traces_dropped.send_failed"] > 0
    /\ stats["decode_error"] = 1
    /\ stats["flush_traces"] > 0

\* C14: add() never returns with a payload above payloadSizeLimit (an append
\* that passes the limit is flushed in the same call), and every payload
\* given to transport.send holds at least one trace.
C14_FlushAtThreshold ==
    /\ pc = "idle" => payload_size(bufs[payload]) <= payloadSizeLimit
    /\ \A t \in DOMAIN tasks :
           tasks[t].pc # "start" => tasks[t].count >= 1

\* C14 witness: add() has returned after its append took the payload of two
\* traces over the limit, and that payload is in transport.send.
C14_Witness ==
    /\ pc = "idle"
    /\ stats["flush_triggered.size"] = 1
    /\ \E t \in DOMAIN tasks : tasks[t].pc = "sending" /\ tasks[t].count = 2

\* C15: a payload handed to a delivery goroutine is sent once, by that
\* goroutine, and is never appended to again: no step changes it, and add()
\* pushes only to a payload no goroutine holds.
C15_SingleOwner ==
    [][ /\ \A t \in DOMAIN tasks : t \in DOMAIN bufs' => bufs'[t] = bufs[t]
        /\ (pc = "idle" /\ pc' = "add_check") => payload \notin DOMAIN tasks
        /\ \A t \in DOMAIN sent' : sent'[t] = 1 /\ (t \in DOMAIN sent \/ t \in DOMAIN tasks)
      ]_vars

\* C15 witness: add() has appended a trace while an earlier payload is in
\* transport.send.
C15_Witness ==
    /\ pc = "add_check"
    /\ ~addHist.err
    /\ \E t \in DOMAIN tasks : tasks[t].pc = "sending"

\* C11: when stop() has returned, no trace accepted before it is left in the
\* writer's payload: everything buffered was handed to a delivery.
C11_StopFlushesAll ==
    pc = "stopped" => payload_itemCount(bufs[payload]) = 0

\* ------------------------------------------------------------------------
\* Further properties of the lambdaTraceWriter
\* ------------------------------------------------------------------------

RECURSIVE SumSizes(_)
SumSizes(sp) == IF sp = << >> THEN 0 ELSE sp[1].sz + SumSizes(Tail(sp))

\* the spans sp, as one new trace array, pass the check of line 194 when
\* appended to the batch buf
FitsInBatch(buf, has, sp) ==
    BufLen(buf) + (IF has THEN OpenNext.n ELSE OpenFirst.n)
                + SumSizes(sp) + (Len(sp) - 1) * Comma.n <= payloadLimit - 2

\* every span of sp is encoded and passes the check alone in an empty payload
EachFitsAlone(sp) ==
    \A i \in 1..Len(sp) :
        sp[i].ok /\ FitsInBatch(resetPayload.buf, resetPayload.has, <<sp[i]>>)

\* add() has just returned from a trace of spans that each fit in a payload
\* but that did not fit as a whole in the batch it was called with
SplitCase ==
    /\ lpc = "idle"
    /\ lpre.on
    /\ EachFitsAlone(accepted[Len(accepted)].spans)
    /\ ~FitsInBatch(lpre.buf, lpre.has, accepted[Len(accepted)].spans)

\* C12 as stated: such an add() has flushed at least once and the spans of
\* the trace lie in at least two payloads.
C12_FlushAndTwoPayloads ==
    SplitCase =>
        /\ Len(stdout) > lpre.out
        /\ Cardinality(Holders(Len(accepted))) >= 2

\* C12 amended: such an add() has flushed at least once and dropped nothing;
\* the spans of the trace lie in at least two payloads provided its first
\* span fitted in the batch add() was called with (else the flush wrote none
\* of them and all of them may lie in the one payload that follows).
C12_FlushAndSplit ==
    SplitCase =>
        /\ Len(stdout) > lpre.out
        /\ accepted[Len(accepted)].drops = 0
        /\ FitsInBatch(lpre.buf, lpre.has, <<accepted[Len(accepted)].spans[1]>>)
               => Cardinality(Holders(Len(accepted))) >= 2

\* C12 witness: add() has returned from a trace of the split case whose
\* first span fitted in a batch that already held a trace.
C12_Witness ==
    /\ SplitCase
    /\ lpre.has
    /\ FitsInBatch(lpre.buf, lpre.has, <<accepted[Len(accepted)].spans[1]>>)

\* C16: a flush that finds every slot of climit taken stays at the send on
\* climit and no delivery of its payload exists, whatever the goroutines do
\* meanwhile; when the scheduler runs the goroutines and every send returns,
\* the waiting flush gets a slot and returns, and every stop() returns.
C16_BackpressureEnds ==
    /\ [][(pc = "flush_acquire" /\ climit = climitCap) =>
             /\ pc' = "flush_acquire"
             /\ payload \notin DOMAIN tasks
             /\ payload' \notin DOMAIN tasks']_vars
    /\ (pc \in {"flush_acquire", "stop_wait"}) ~> (pc \in {"idle", "stopped"})

\* C16 witness: flush(), called by the owner, waits for a slot while every
\* slot is held by a delivery inside transport.send.
C16_Witness ==
    /\ caller = "flush"
    /\ pc = "flush_acquire"
    /\ climit = climitCap
    /\ Cardinality(InSend) = climitCap

\* C17: every round of the loop of add either ends the call, or leaves fewer
\* spans of the trace to add, or leaves as many spans and turns hasTraces from
\* true to false (the round that wrote zero spans into a batch that already
\* held traces and flushed it); this measure cannot decrease forever, so the
\* loop ends after finitely many rounds.
C17_AddTerminates ==
    [][lpc = "add" =>
         \/ lpc' = "idle"
         \/ lpc' = "add" /\ Len(trace') < Len(trace)
         \/ /\ lpc' = "add"
            /\ Len(trace') = Len(trace)
            /\ hasTraces
            /\ ~hasTraces']_vars

\* a round wrote zero spans of the trace, flushed the batch, and add goes on
C17_Witness ==
    /\ writer = "lambda"
    /\ lpc = "add"
    /\ lpre.on
    /\ lpre.has
    /\ Len(stdout) > lpre.out
    /\ ~hasTraces
    /\ Len(trace) = Len(accepted[Len(accepted)].spans)

\* the traces in the buffers of the deliveries in flight
InFlightTraces ==
    LET RECURSIVE Sum(_)
        Sum(S) == IF S = {} THEN 0
                  ELSE LET t == CHOOSE x \in S : TRUE
                       IN  payload_itemCount(bufs[t]) + Sum(S \ {t})
    IN  Sum(InSend)

\* the traces whose fate has been counted
CountedTraces ==
    stats["traces_dropped.encoding_error"] + stats["flush_traces"]
        + stats["traces_dropped.send_failed"]

\* C18 as stated: in every reachable state the traces passed to add are the
\* traces counted as dropped (encoding_error), counted in flush_traces,
\* counted as dropped (send_failed), held by deliveries in flight, and held
\* by the current payload.
C18_Conserved ==
    writer = "agent" =>
        nAdds = CountedTraces + InFlightTraces
                    + payload_itemCount(bufs[payload])

\* C18 amended: the same balance, where between the go statement of flush and
\* the replacement of h.payload the current payload is the one handed to the
\* delivery and is counted with that delivery only.
C18_ConservedOutsideSwap ==
    writer = "agent" =>
        nAdds = CountedTraces + InFlightTraces
                    + (IF pc = "flush_swap" THEN 0
                       ELSE payload_itemCount(bufs[payload]))

\* a batch has been counted as dropped, another one is in flight, and the
\* caller is between calls
C18_Witness ==
    /\ writer = "agent"
    /\ pc = "idle"
    /\ InSend # {}
    /\ stats["traces_dropped.send_failed"] > 0
    /\ nAdds = CountedTraces + InFlightTraces

\* a trace array opened and closed with no span in between
EmptyArrayIn(buf) ==
    \E j \in 1..(Len(buf) - 1) :
        /\ buf[j] \in {OpenFirst, OpenNext}
        /\ buf[j + 1] = CloseArr

\* C19: no payload written to stdout, and no buffer left behind by a call of
\* add, holds a trace array without a span.
C19_NoEmptyTraceArray ==
    /\ \A i \in 1..Len(stdout) : ~EmptyArrayIn(stdout[i])
    /\ lpc = "idle" => ~EmptyArrayIn(lpayload)

\* C20: when stop has returned, no delivery goroutine has anything left to
\* do: each has recorded flush_duration and exited.
C20_NothingRunsAfterStop ==
    (writer = "agent" /\ pc = "stopped") => DOMAIN tasks = {}

====
